---- MODULE Spec2Model ----
(***************************************************************************)
(* Login flow of the user-manager service                                  *)
(* (src/user-manager/userManager/authentication): the per-IP attempt       *)
(* limiter of CustomTokenObtainPairView.post, the credential check and     *)
(* LoginAttempt logging of CustomTokenObtainPairSerializer.validate.       *)
(*                                                                         *)
(* A request is handled in three steps, one per access to shared state:    *)
(*   PostRateLimit  views.py 31-40   cache.get and the threshold test      *)
(*   PostSuper      views.py 42      super().post(): serializer.is_valid() *)
(*   PostFinish     views.py 44-48   the failure branch and the return     *)
(* and Respond hands the response to the client.  Several requests are in  *)
(* the handler at once (one per worker), interleaved step by step.         *)
(*                                                                         *)
(* super().post() is rest_framework_simplejwt's TokenViewBase.post: it     *)
(* returns Response(serializer.validated_data, status=200) when            *)
(* is_valid(raise_exception=True) passes and otherwise lets the exception  *)
(* propagate (serializers.py line 53 re-raises it).  The exception leaves  *)
(* CustomTokenObtainPairView.post at line 42; APIView.dispatch turns it    *)
(* into the 401/400 response.  Lines 44-48 run only after a return.        *)
(***************************************************************************)
EXTENDS Integers, Sequences, FiniteSets, Bags, TLC

\* ---------------------------------------------------------------- bounds
\* login requests received in one run
MaxReq == 3
\* login requests of one burst (one worker, one client, no clock tick)
MaxBurst == 7
\* seconds per clock tick, and the number of ticks of a run
TickStep == 150
MaxTicks == 2
\* login requests received in one run that starts with counters in the cache
MaxSeededReq == 2
\* login requests and validate requests of the token specification
\* patients and data versions of the patient service
MaxPatients == 1
MaxVersion == 2
MaxPatReq == 3
MaxTokReq == 1
MaxValidate == 2

\* ------------------------------------------------------ program constants
\* views.py 35: if attempts >= 5
THRESHOLD == 5
\* views.py 46: cache.set(cache_key, attempts + 1, 300)
LOGIN_TTL == 300
\* views.py 39: 'retry_after': 300
RETRY_AFTER == 300
\* views.py 44: if response.status_code != 200
HTTP_200 == 200
\* seguridad.py 141: a rejected login is answered 401 (AuthenticationFailed)
HTTP_401 == 401
\* views.py 40: status.HTTP_429_TOO_MANY_REQUESTS
HTTP_429 == 429
\* views.py 99: JsonResponse(..., status=500)
HTTP_500 == 500
\* the token lifetimes of the service's settings (SIMPLE_JWT), in seconds:
\* a short-lived access token (minutes), a long-lived refresh token (a day)
ACCESS_TOKEN_LIFETIME == 300
REFRESH_TOKEN_LIFETIME == 86400

\* ------------------------------------------------------------ the world
Workers == {"w1", "w2"}

IP_A == "1.2.3.4"
IP_B == "5.6.7.8"
PROXY == "10.0.0.1"
IPs == {IP_A, IP_B}

\* request.META: the X-Forwarded-For header as its comma-separated entries
\* (<<>>: header absent or empty), the peer address, the user agent
Metas ==
    { [xff |-> <<IP_A, PROXY>>, remote |-> PROXY, ua |-> "curl"],
      [xff |-> <<>>,            remote |-> IP_B,  ua |-> ""] }

Missing == "<missing>"
\* request.data: username and password, either possibly not sent
Bodies ==
    { [username |-> "alice",   password |-> "pw_alice"],
      [username |-> "alice",   password |-> "wrong"],
      [username |-> "mallory", password |-> "wrong"],
      [username |-> Missing,   password |-> "wrong"],
      [username |-> "alice",   password |-> Missing] }

\* the user table (authentication.User, models.py 5-33): one active account
User ==
    [ alice |-> [id |-> 1, username |-> "alice", password |-> "pw_alice",
                 is_active |-> TRUE] ]

NoUser == [id |-> 0, username |-> "", password |-> "", is_active |-> FALSE]

\* ------------------------------------------------------------- the cache
\* django.core.cache: key -> (value, expiry instant).  A key that was never
\* set is an entry that expired at instant 0.
NoEntry == [value |-> 0, expires |-> 0]

\* views.py 32: cache_key = f"login_attempts_{ip_address}"
cache_key(ip) == <<"login_attempts_", ip>>

Keys == { cache_key(ip) : ip \in IPs }

\* cache.get(key, default) at instant t: the default once the entry expired
cache_get_noexpiry(c, key, default, t) ==
    IF c[key] = NoEntry THEN default ELSE c[key].value

cache_get(c, key, default, t) ==
    IF t < c[key].expires THEN c[key].value ELSE default

\* cache.set(key, value, timeout) at instant t
cache_set(c, key, value, timeout, t) ==
    [c EXCEPT ![key] = [value |-> value, expires |-> t + timeout]]

\* ----------------------------------------------------------- client IP
\* views.py 50-56
\* (variant: every request is counted under one key)
get_client_ip_shared(meta) == IP_A

get_client_ip(meta) ==
    IF meta.xff # <<>> THEN meta.xff[1] ELSE meta.remote

\* serializers.py 55-62
\* (variant: the serializer logs the direct peer)
serializer_get_client_ip_remote(meta) == meta.remote

serializer_get_client_ip(meta) ==
    IF meta.xff # <<>> THEN meta.xff[1] ELSE meta.remote

\* ------------------------------------------------------------ responses
\* A token is what its signed payload says: the kind, the user, the expiry
\* instant; signed tells whether the signature is the service's own.
NoToken == [token_type |-> "none", user_id |-> 0, exp |-> 0, signed |-> FALSE]

Response(status, error, retry_after, access, refresh) ==
    [status |-> status, error |-> error, retry_after |-> retry_after,
     access |-> access, refresh |-> refresh]

NoResponse == Response(0, "", 0, NoToken, NoToken)

\* views.py 35: the limiter's test on the value read
RateLimited_gt(attempts) == attempts > THRESHOLD

RateLimited(attempts) == attempts >= THRESHOLD

\* views.py 37-40
RateLimitResponse ==
    Response(HTTP_429, "Too many login attempts. Please try again later.",
             RETRY_AFTER, NoToken, NoToken)

\* django.contrib.auth.authenticate as called by TokenObtainSerializer.validate
\* (serializers.py 19): the account, when it exists, is active and the
\* password matches; NoUser otherwise
authenticate(username, password) ==
    IF /\ username \in DOMAIN User
       /\ User[username].password = password
       /\ User[username].is_active
    THEN User[username]
    ELSE NoUser

\* RefreshToken.for_user(user) and its access_token (serializers.py 19),
\* minted at instant t
TokenPair(user, t) ==
    [refresh |-> [token_type |-> "refresh", user_id |-> user.id,
                  exp |-> t + REFRESH_TOKEN_LIFETIME, signed |-> TRUE],
     access  |-> [token_type |-> "access",  user_id |-> user.id,
                  exp |-> t + ACCESS_TOKEN_LIFETIME, signed |-> TRUE]]

\* models.py 35-40: a LoginAttempt row (the timestamp is left out)
LoginAttemptRow(username, ip, ua, success) ==
    [username |-> username, ip_address |-> ip, user_agent |-> ua,
     success |-> success]

\* ------------------------------------------------ the serializer (line 42)
\* TokenObtainPairSerializer's declared fields (serializers.py 9): username
\* and password are required; run_validation rejects the data with a
\* ValidationError before validate() is called
FieldErrors(attrs) ==
    attrs.username = Missing \/ attrs.password = Missing

\* What is_valid(raise_exception=True) leaves behind: whether it raised, the
\* response the outcome maps to, and the LoginAttempt rows it created.
Outcome(raised, resp, created) ==
    [raised |-> raised, resp |-> resp, created |-> created]

\* serializers.py 12-53, CustomTokenObtainPairSerializer.validate
validate_norow(meta, attrs, t) ==
    LET user == authenticate(attrs.username, attrs.password)
    IN  IF user # NoUser
        THEN Outcome(FALSE,
                     Response(HTTP_200, "", 0, TokenPair(user, t).access,
                              TokenPair(user, t).refresh),
                     <<>>)
        ELSE Outcome(TRUE,
                     Response(HTTP_401, "no_active_account", 0, NoToken, NoToken),
                     <<>>)

validate_logs_user(meta, attrs, t) ==
    LET ip_address == serializer_get_client_ip(meta)
        user == authenticate(attrs.username, attrs.password)
    IN  IF user # NoUser
        THEN Outcome(FALSE,
                     Response(HTTP_200, "", 0, TokenPair(user, t).access,
                              TokenPair(user, t).refresh),
                     << LoginAttemptRow(user.username, ip_address, meta.ua, TRUE) >>)
        ELSE Outcome(TRUE,
                     Response(HTTP_401, "no_active_account", 0, NoToken, NoToken),
                     << LoginAttemptRow(IF attrs.username \in DOMAIN User
                                        THEN attrs.username ELSE "unknown",
                                        ip_address, meta.ua, FALSE) >>)

\* (variant: an unknown username gets an error of its own)
validate_reveals(meta, attrs, t) ==
    LET ip_address == serializer_get_client_ip(meta)
        user == authenticate(attrs.username, attrs.password)
    IN  IF user # NoUser
        THEN Outcome(FALSE,
                     Response(HTTP_200, "", 0, TokenPair(user, t).access,
                              TokenPair(user, t).refresh),
                     << LoginAttemptRow(user.username, ip_address, meta.ua, TRUE) >>)
        ELSE Outcome(TRUE,
                     Response(HTTP_401,
                              IF attrs.username \in DOMAIN User
                              THEN "no_active_account" ELSE "user_not_found",
                              0, NoToken, NoToken),
                     << LoginAttemptRow(attrs.username, ip_address, meta.ua, FALSE) >>)

validate(meta, attrs, t) ==
    LET ip_address == serializer_get_client_ip(meta)
        user == authenticate(attrs.username, attrs.password)
    IN  IF user # NoUser
        THEN \* 19-35: tokens, one row with success=True, return data
             Outcome(FALSE,
                     Response(HTTP_200, "", 0, TokenPair(user, t).access,
                              TokenPair(user, t).refresh),
                     << LoginAttemptRow(user.username, ip_address, meta.ua, TRUE) >>)
        ELSE \* 37-53: AuthenticationFailed caught, one row with
             \* success=False under the submitted username, re-raised
             Outcome(TRUE,
                     Response(HTTP_401, "no_active_account", 0, NoToken, NoToken),
                     << LoginAttemptRow(attrs.username, ip_address, meta.ua, FALSE) >>)

\* serializer.is_valid(raise_exception=True): the field checks, then validate
is_valid(meta, data, t) ==
    IF FieldErrors(data)
    THEN \* ValidationError: 400 Bad Request
         Outcome(TRUE, Response(400, "required", 0, NoToken, NoToken), <<>>)
    ELSE validate(meta, data, t)

\* LoginAttempt.objects.create for each row of a sequence
RECURSIVE create_all(_, _)
create_all(table, created) ==
    IF created = <<>> THEN table
    ELSE create_all(table (+) SetToBag({Head(created)}), Tail(created))

\* ------------------------------------------------------- validate_token
Validators == {"g1", "g2"}

\* The Authorization header is the sequence of the parts that split(' ')
\* yields; a part is plain text or an encoded token. No header at all is the
\* empty sequence, the empty header is one empty part.
Word(text) == [text |-> text, tok |-> NoToken]
Jwt(tok) == [text |-> "<jwt>", tok |-> tok]
NoHeader == << >>
Bearer(word) == <<Word("Bearer"), word>>

\* headers that carry no token the service issued
PlainHeaders ==
    {NoHeader, <<Word("")>>, <<Word("Bearer")>>,
     <<Word("Basic"), Word("YWxpY2U6cHc=")>>,
     Bearer(Word("")), Bearer(Word("garbage"))}

\* Tokens that clients hold when the observation starts: an access token of
\* alice about to expire, a refresh token of alice, an access token of an
\* account that was deleted since, and an access token with a forged
\* signature.
DELETED_ID == 2
EarlierTokens ==
    {[token_type |-> "access", user_id |-> 1, exp |-> TickStep,
      signed |-> TRUE],
     [token_type |-> "refresh", user_id |-> 1, exp |-> REFRESH_TOKEN_LIFETIME,
      signed |-> TRUE],
     [token_type |-> "access", user_id |-> DELETED_ID,
      exp |-> ACCESS_TOKEN_LIFETIME, signed |-> TRUE],
     [token_type |-> "access", user_id |-> 1, exp |-> REFRESH_TOKEN_LIFETIME,
      signed |-> FALSE]}

\* (variant: a bearer value that is no token string counts as no bearer)
no_bearer_or_malformed(auth_header) ==
    \/ Len(auth_header) < 2
    \/ auth_header[1].text # "Bearer"
    \/ auth_header[2].text # "<jwt>"

\* views.py 63: not auth_header or not auth_header.startswith('Bearer ')
no_bearer(auth_header) ==
    \/ auth_header = NoHeader
    \/ auth_header = <<Word("")>>
    \/ ~(Len(auth_header) >= 2 /\ auth_header[1].text = "Bearer")

\* views.py 68: auth_header.split(' ')[1]
split_token(auth_header) == auth_header[2]

\* (variants of the expiry test)
expired_after(tok, t) == t > tok.exp
expired_at(tok, t) == t = tok.exp

\* the exp claim against the clock: a token is good strictly before exp
expired(tok, t) == t >= tok.exp

\* views.py 72: UntypedToken(token) raises TokenError for a string that is
\* no token, a wrong signature or an expired token; the token type is not
\* looked at
UntypedToken_raises(word, t) ==
    \/ word.text # "<jwt>"
    \/ ~word.tok.signed
    \/ expired(word.tok, t)

\* views.py 75: jwt.decode(token, SECRET_KEY, algorithms=['HS256']) raises
\* (an exception that is no TokenError) on the same grounds, read at its own
\* instant
jwt_decode_raises(word, t) ==
    \/ word.text # "<jwt>"
    \/ ~word.tok.signed
    \/ expired(word.tok, t)

\* (variant: the lookup ignores the id)
UsersWithId_any(id) == { User[n] : n \in DOMAIN User }

\* views.py 79: User.objects.get(id=user_id)
UsersWithId(id) == { u \in { User[n] : n \in DOMAIN User } : u.id = id }

\* a validate response: status, body, and the X-User header ("" when unset)
VResponse(status, valid, error, user_id, username, x_user) ==
    [status |-> status, valid |-> valid, error |-> error,
     user_id |-> user_id, username |-> username, x_user |-> x_user]

NoVResponse == VResponse(0, FALSE, "", 0, "", "")

\* views.py 63-66
MissingResponse == VResponse(HTTP_401, FALSE, "Missing token", 0, "", "")
\* views.py 94-96
InvalidResponse == VResponse(HTTP_401, FALSE, "Invalid token", 0, "", "")
\* views.py 97-99
ErrorResponse == VResponse(HTTP_500, FALSE, "Validation error", 0, "", "")
\* views.py 90-92
UserNotFoundResponse == VResponse(HTTP_401, FALSE, "User not found", 0, "", "")
\* (variant: no X-User header on the answer)
ValidResponse_noheader(user) ==
    VResponse(HTTP_200, TRUE, "", user.id, user.username, "")

\* views.py 81-88
ValidResponse(user) ==
    VResponse(HTTP_200, TRUE, "", user.id, user.username, user.username)

\* views.py 75-92 on a token that UntypedToken accepted
decode_and_lookup(word, t) ==
    IF jwt_decode_raises(word, t) THEN ErrorResponse
    ELSE IF UsersWithId(word.tok.user_id) = {} THEN UserNotFoundResponse
    ELSE ValidResponse(CHOOSE u \in UsersWithId(word.tok.user_id) : TRUE)

IdleVSlot ==
    [pc |-> "idle", header |-> NoHeader, token |-> Word(""),
     resp |-> NoVResponse]

\* ----------------------------------------------- patients: PatientViewSet
\* (patient-manager, patients/views.py)
PWorkers == {"p1", "p2"}
PatientIds == 1 .. MaxPatients

\* the two caching periods: views.py 59 and 95
LIST_TTL == 300
DETAIL_TTL == 600

\* query strings of the list endpoint; both select every patient
Queries == {"", "ordering=created_at"}

\* A cache key is a string; it is kept as the pieces it is made of: what
\* the backend put in front of it, its name part, and the id or the hash of
\* the query parameters behind it.
ListKey(q) == [pre |-> << >>, name |-> "patients_list_", id |-> 0, q |-> q]
DetailKey(id) == [pre |-> << >>, name |-> "patient_", id |-> id, q |-> ""]
PKeys == { ListKey(q) : q \in Queries } \cup { DetailKey(i) : i \in PatientIds }

\* django cache: every operation stores the key as KEY_PREFIX:VERSION:key,
\* ":1:" + key with the default settings
make_key(key) == [key EXCEPT !.pre = <<":1:">> \o key.pre]

StoredKeys == { make_key(k) : k \in PKeys }

\* str.startswith on a key
startswith(key, prefix) == key.pre = << >> /\ key.name = prefix

\* a patient row: whether it exists, and the version of its data (0 before
\* the row is created)
NoPatient == [exists |-> FALSE, ver |-> 0]

\* the serialized data of patient i at version v, and of the patient list
DetailData(i, v) == [j \in PatientIds |-> IF j = i THEN v ELSE 0]
ListData(db) == [j \in PatientIds |-> IF db[j].exists THEN db[j].ver ELSE 0]
NoData == [j \in PatientIds |-> 0]

NoPEntry == [present |-> FALSE, value |-> NoData, expires |-> 0]

\* cache.get(key): None unless a live entry is stored under the made key
pcache_get(c, key, t) ==
    LET e == c[make_key(key)]
    IN  IF e.present /\ t < e.expires THEN e ELSE NoPEntry

\* cache.set(key, value, timeout)
pcache_set(c, key, value, timeout, t) ==
    [c EXCEPT ![make_key(key)] =
        [present |-> TRUE, value |-> value, expires |-> t + timeout]]

\* cache.delete(key); a key that is not stored is left alone
pcache_delete(c, key) ==
    [k \in DOMAIN c |-> IF k = make_key(key) THEN NoPEntry ELSE c[k]]

\* cache._cache.keys(): the keys as the backend stores them
stored_keys(c) == { k \in DOMAIN c : c[k].present }

\* cache.delete_many(keys)
pcache_delete_many(c, keys) ==
    [k \in DOMAIN c |->
        IF \E key \in keys : k = make_key(key) THEN NoPEntry ELSE c[k]]

\* views.py 115 and 129: delete_many of the stored keys that start with
\* 'patients_list_'
invalidate_lists(c) ==
    pcache_delete_many(c, { key \in stored_keys(c) :
                              startswith(key, "patients_list_") })

IdlePSlot ==
    [pc |-> "idle", op |-> "", id |-> 0, q |-> "", status |-> 0,
     data |-> NoData, hit |-> FALSE, floor |-> NoData, gone |-> FALSE]

\* ------------------------- history and diagnosis services: the lookups
\* (history-clinic-manager/main.py, diagnosis-manager/main.py)
HWorkers == {"h1", "h2"}

\* the path parameter of a patient lookup: whether it is longer than 10
\* characters (taken as a UUID), whether int() accepts it, and whether a
\* Patient row matches it
PatientArgs ==
    {[text |-> "1", long |-> FALSE, numeric |-> TRUE, matches |-> TRUE],
     [text |-> "999", long |-> FALSE, numeric |-> TRUE, matches |-> FALSE],
     [text |-> "abc", long |-> FALSE, numeric |-> FALSE, matches |-> FALSE],
     [text |-> "3f2c0e9a-known", long |-> TRUE, numeric |-> FALSE,
      matches |-> TRUE],
     [text |-> "3f2c0e9a-other", long |-> TRUE, numeric |-> FALSE,
      matches |-> FALSE]}

\* the diagnosis of analyze_diagnosis: whether medical records match it
DiagnosisArgs ==
    {[text |-> "gripe", long |-> FALSE, numeric |-> FALSE, matches |-> TRUE],
     [text |-> "zzz", long |-> FALSE, numeric |-> FALSE, matches |-> FALSE]}

\* what the body of a handler's try block does: it returns, or it raises an
\* exception of some class
Returned == [raised |-> FALSE, class |-> "", status |-> 200]
Raises(class, status) == [raised |-> TRUE, class |-> class, status |-> status]

\* history main.py 191-198, 287-294, diagnosis main.py 372-378: the patient
\* lookup and 'if not patient: raise HTTPException(status_code=404)'
patient_lookup_body(arg, db_ok) ==
    IF ~arg.long /\ ~arg.numeric THEN Raises("ValueError", 0)
    ELSE IF ~db_ok THEN Raises("OperationalError", 0)
    ELSE IF ~arg.matches THEN Raises("HTTPException", 404)
    ELSE Returned

\* diagnosis main.py 297-307: the record search and 'if not records: raise
\* HTTPException(status_code=404)'
diagnosis_lookup_body(arg, db_ok) ==
    IF ~db_ok THEN Raises("OperationalError", 0)
    ELSE IF ~arg.matches THEN Raises("HTTPException", 404)
    ELSE Returned

\* the except clauses of the handlers, tried in order: 'except ValueError'
\* (400) where there is one, then 'except Exception' (500); HTTPException
\* is a subclass of Exception
except_clauses(out, has_value_error_clause) ==
    IF ~out.raised THEN out.status
    ELSE IF out.class = "ValueError" /\ has_value_error_clause THEN 400
    ELSE 500

\* history main.py 189-224
get_patient_history(arg, db_ok) ==
    except_clauses(patient_lookup_body(arg, db_ok), TRUE)
\* history main.py 285-331
get_patient_timeline(arg, db_ok) ==
    except_clauses(patient_lookup_body(arg, db_ok), TRUE)
\* diagnosis main.py 370-468
assess_patient_risk(arg, db_ok) ==
    except_clauses(patient_lookup_body(arg, db_ok), TRUE)
\* diagnosis main.py 295-359
analyze_diagnosis(arg, db_ok) ==
    except_clauses(diagnosis_lookup_body(arg, db_ok), FALSE)

IdleHSlot ==
    [pc |-> "idle", endpoint |-> "",
     arg |-> [text |-> "", long |-> FALSE, numeric |-> FALSE, matches |-> FALSE],
     db_ok |-> TRUE, status |-> 0]

\* ------------------------------------------------ the experiment GUI
\* bound: the worker threads the GUI starts
MaxStarts == 2
\* bound: the button handlers the GUI runs
MaxCalls == 4

ExperimentTypes == {"latency", "security"}
ThreadIds == 1 .. MaxStarts

\* main.py 65: running_experiments = {}; an entry holds the Popen object,
\* named here by the thread that created it, and 0 stands for no entry
NoProcess == 0

\* a thread the GUI has not started yet
UnusedThread ==
    [pc |-> "unused", type |-> "", process |-> "none", raised |-> FALSE]

\* the main thread between two handlers
IdleGui == [pc |-> "idle", type |-> "", last |-> "", calls |-> 0]

\* 'latency' in self.running_experiments
has_entry(d, type) == d[type] # NoProcess

\* del self.running_experiments[type]
del_entry(d, type) == [d EXCEPT ![type] = NoProcess]

\* self.running_experiments[type] = process
set_entry(d, type, process) == [d EXCEPT ![type] = process]

\* -------------------------------------------- the load-test reports
\* .get() of a measurement the run did not produce
Absent == -1

\* seguridad.py 471-493, latencia.py 547-569: the ASR limits, in
\* milliseconds, and in millionths for the false positive rate
BRUTE_FORCE_LIMIT == 1000
FALSE_POSITIVE_LIMIT == 1000
JWT_LIMIT == 250
E2E_P95_LIMIT == 800
DB_QUERY_LIMIT == 200

\* the measurements a run can hold: none, zero, below and at the limit
Samples(limit) == {Absent, 0, limit - 1, limit}

ResultSets ==
    [avg_detection_time : Samples(BRUTE_FORCE_LIMIT),
     false_positive_rate : Samples(FALSE_POSITIVE_LIMIT),
     avg_validation_time : Samples(JWT_LIMIT),
     e2e_p95 : Samples(E2E_P95_LIMIT),
     jwt_mean : Samples(JWT_LIMIT),
     detail_mean : Samples(DB_QUERY_LIMIT)]

\* 'if d.get(name):' of a number or None
truthy(x) == x # Absent /\ x # 0

\* seguridad.py 467-494
security_asr_compliance(r) ==
    LET evaluated ==
          {n \in {"brute_force_detection"} : truthy(r.avg_detection_time)}
          \cup {n \in {"false_positive_rate"} : r.false_positive_rate # Absent}
          \cup {n \in {"jwt_validation_time"} : truthy(r.avg_validation_time)}
    IN  [n \in evaluated |->
           CASE n = "brute_force_detection" ->
                  r.avg_detection_time < BRUTE_FORCE_LIMIT
             [] n = "false_positive_rate" ->
                  r.false_positive_rate < FALSE_POSITIVE_LIMIT
             [] OTHER -> r.avg_validation_time < JWT_LIMIT]

\* latencia.py 543-570
latency_asr_compliance(r) ==
    LET evaluated ==
          {n \in {"end_to_end_p95"} : truthy(r.e2e_p95)}
          \cup {n \in {"jwt_validation"} : truthy(r.jwt_mean)}
          \cup {n \in {"database_query"} : truthy(r.detail_mean)}
    IN  [n \in evaluated |->
           CASE n = "end_to_end_p95" -> r.e2e_p95 < E2E_P95_LIMIT
             [] n = "jwt_validation" -> r.jwt_mean < JWT_LIMIT
             [] OTHER -> r.detail_mean < DB_QUERY_LIMIT]

Max2(a, b) == IF a >= b THEN a ELSE b

\* (variant: a report without an evaluated ASR fails)
summary_needs_one(asr_compliance) ==
    LET total_compliant ==
          Cardinality({n \in DOMAIN asr_compliance : asr_compliance[n]})
        total_asrs == Cardinality(DOMAIN asr_compliance)
    IN  [total_asrs_evaluated |-> total_asrs,
         compliant_asrs |-> total_compliant,
         compliance_percentage |->
            [num |-> total_compliant * 100, den |-> Max2(1, total_asrs)],
         overall_status |->
            IF total_compliant = total_asrs /\ total_asrs > 0
            THEN "PASS" ELSE "FAIL"]

\* seguridad.py 497-506, latencia.py 588-597: the summary; the percentage
\* (total_compliant / max(1, total_asrs)) * 100 is kept as a fraction
summary(asr_compliance) ==
    LET total_compliant ==
          Cardinality({n \in DOMAIN asr_compliance : asr_compliance[n]})
        total_asrs == Cardinality(DOMAIN asr_compliance)
    IN  [total_asrs_evaluated |-> total_asrs,
         compliant_asrs |-> total_compliant,
         compliance_percentage |->
            [num |-> total_compliant * 100, den |-> Max2(1, total_asrs)],
         overall_status |->
            IF total_compliant = total_asrs THEN "PASS" ELSE "FAIL"]

generate_security_report(r) ==
    [script |-> "seguridad",
     asr_compliance |-> security_asr_compliance(r),
     summary |-> summary(security_asr_compliance(r))]

generate_latency_report(r) ==
    [script |-> "latencia",
     asr_compliance |-> latency_asr_compliance(r),
     summary |-> summary(latency_asr_compliance(r))]

\* no report written yet
NoReport ==
    [script |-> "", asr_compliance |-> << >>, summary |-> summary(<< >>)]

\* ------------------------------------------------------------------ state
VARIABLES
    now,      \* the clock, in seconds
    cache,    \* the attempt counters: cache key -> entry
    rows,     \* the LoginAttempt table, a bag of rows
    slot,     \* per worker: the request it handles and where it stands
    issued,   \* number of login requests received so far
    streak,   \* per client IP: failed logins answered since its last success
    vslot,    \* per validator: the validate request it handles
    held,     \* the tokens that clients hold
    validated,    \* number of validate requests received so far
    expiredSeen   \* the tokens a validate has refused because of expiry

tokvars == <<vslot, held, validated, expiredSeen>>

VARIABLES
    pdb,        \* the Patient table: id -> row
    pcache,     \* the patient service's cache: stored key -> entry
    pslot,      \* per worker of the patient service: its request
    completed,  \* per patient: the data version of the last completed write
    preqs       \* number of requests the patient service has received

patvars == <<pdb, pcache, pslot, completed, preqs>>

VARIABLES
    hslot       \* per worker of the history and diagnosis services: its request

VARIABLES
    running_experiments,  \* the GUI's dictionary: experiment type -> process
    thread,     \* per worker thread of the GUI: where it stands, its process
    gui         \* the GUI's main thread: the handler it runs, its last dialog

VARIABLES
    results,    \* the measurements of a load-test run
    report      \* the report written from them

\* the variables of the other services
othervars == <<pdb, pcache, pslot, completed, preqs, hslot,
               running_experiments, thread, gui, results, report>>

vars == <<now, cache, rows, slot, issued, streak, vslot, held, validated,
          expiredSeen, pdb, pcache, pslot, completed, preqs, hslot,
          running_experiments, thread, gui, results, report>>

IdleSlot ==
    [pc |-> "idle", meta |-> [xff |-> <<>>, remote |-> "", ua |-> ""],
     body |-> [username |-> "", password |-> ""],
     ip |-> "", attempts |-> 0, t0 |-> 0, overlap |-> FALSE,
     resp |-> NoResponse]

InHandler == {"checked", "returned", "raised"}

Other(s) == CHOOSE t \in Workers : t # s

\* views.py 44-46: the failure branch, taken on a returned response
record_failure_any(c, sl, t) ==
    IF sl.resp.status # HTTP_200
    THEN cache_set(c, cache_key(sl.ip), sl.attempts + 1, LOGIN_TTL, t)
    ELSE c

record_failure(c, sl, t) ==
    IF sl.pc = "returned" /\ sl.resp.status # HTTP_200
    THEN cache_set(c, cache_key(sl.ip), sl.attempts + 1, LOGIN_TTL, t)
    ELSE c

\* no validate request yet; the clients hold the earlier tokens
\* patients: an empty table, an empty cache, no request
InitPatients ==
    /\ pdb = [i \in PatientIds |-> NoPatient]
    /\ pcache = [k \in StoredKeys |-> NoPEntry]
    /\ pslot = [w \in PWorkers |-> IdlePSlot]
    /\ completed = NoData
    /\ preqs = 0

\* the GUI: no experiment started, no thread, no handler running
InitGui ==
    /\ running_experiments = [t \in ExperimentTypes |-> NoProcess]
    /\ thread = [i \in ThreadIds |-> UnusedThread]
    /\ gui = IdleGui

\* no load-test run yet
InitReports ==
    /\ results = [f \in {"avg_detection_time", "false_positive_rate",
                         "avg_validation_time", "e2e_p95", "jwt_mean",
                         "detail_mean"} |-> Absent]
    /\ report = NoReport

InitOthers ==
    /\ InitPatients
    /\ hslot = [h \in HWorkers |-> IdleHSlot]
    /\ InitGui
    /\ InitReports

InitTokens ==
    /\ vslot = [v \in Validators |-> IdleVSlot]
    /\ held = EarlierTokens
    /\ validated = 0
    /\ expiredSeen = {}

Init ==
    /\ now = 0
    /\ cache = [k \in Keys |-> NoEntry]
    /\ rows = EmptyBag
    /\ slot = [s \in Workers |-> IdleSlot]
    /\ issued = 0
    /\ streak = [ip \in IPs |-> 0]
    /\ InitTokens
    /\ InitOthers

\* (variant: the rejection is logged like a failed login)
PostRateLimit_logged(s, meta, body, budget) ==
    /\ slot[s].pc = "idle"
    /\ issued < budget
    /\ LET ip_address == get_client_ip(meta)
           attempts == cache_get(cache, cache_key(ip_address), 0, now)
           sl == [IdleSlot EXCEPT !.meta = meta, !.body = body,
                                  !.ip = ip_address, !.attempts = attempts,
                                  !.t0 = now,
                                  !.overlap = slot[Other(s)].pc \in InHandler]
       IN  IF RateLimited(attempts)
           THEN /\ slot' = [slot EXCEPT ![s] =
                             [sl EXCEPT !.pc = "done", !.resp = RateLimitResponse]]
                /\ rows' = rows (+) SetToBag({
                             LoginAttemptRow(body.username, ip_address, meta.ua, FALSE)})
           ELSE /\ slot' = [slot EXCEPT ![s] = [sl EXCEPT !.pc = "checked"]]
                /\ rows' = rows
    /\ issued' = issued + 1
    /\ UNCHANGED <<now, cache, streak>>
    /\ UNCHANGED tokvars
    /\ UNCHANGED othervars

\* (variant: the rejection renews the expiry of the counter)
PostRateLimit_renews(s, meta, body, budget) ==
    /\ slot[s].pc = "idle"
    /\ issued < budget
    /\ LET ip_address == get_client_ip(meta)
           attempts == cache_get(cache, cache_key(ip_address), 0, now)
           sl == [IdleSlot EXCEPT !.meta = meta, !.body = body,
                                  !.ip = ip_address, !.attempts = attempts,
                                  !.t0 = now,
                                  !.overlap = slot[Other(s)].pc \in InHandler]
       IN  IF RateLimited(attempts)
           THEN /\ slot' = [slot EXCEPT ![s] =
                             [sl EXCEPT !.pc = "done", !.resp = RateLimitResponse]]
                /\ cache' = cache_set(cache, cache_key(ip_address), attempts,
                                      LOGIN_TTL, now)
           ELSE /\ slot' = [slot EXCEPT ![s] = [sl EXCEPT !.pc = "checked"]]
                /\ cache' = cache
    /\ issued' = issued + 1
    /\ UNCHANGED <<now, rows, streak>>
    /\ UNCHANGED tokvars
    /\ UNCHANGED othervars

\* views.py 31-40: the client IP, cache.get, the threshold test
PostRateLimit(s, meta, body, budget) ==
    /\ slot[s].pc = "idle"
    /\ issued < budget
    /\ LET ip_address == get_client_ip(meta)
           attempts == cache_get(cache, cache_key(ip_address), 0, now)
           sl == [IdleSlot EXCEPT !.meta = meta, !.body = body,
                                  !.ip = ip_address, !.attempts = attempts,
                                  !.t0 = now,
                                  !.overlap = slot[Other(s)].pc \in InHandler]
       IN  slot' = [slot EXCEPT ![s] =
                      IF RateLimited(attempts)
                      THEN [sl EXCEPT !.pc = "done", !.resp = RateLimitResponse]
                      ELSE [sl EXCEPT !.pc = "checked"]]
    /\ issued' = issued + 1
    /\ UNCHANGED <<now, cache, rows, streak>>
    /\ UNCHANGED tokvars
    /\ UNCHANGED othervars

\* views.py 42: super().post(request): TokenViewBase.post runs
\* serializer.is_valid(raise_exception=True) and returns the 200 response,
\* or the exception propagates
PostSuper(s) ==
    /\ slot[s].pc = "checked"
    /\ LET out == is_valid(slot[s].meta, slot[s].body, now)
       IN  /\ rows' = create_all(rows, out.created)
           /\ slot' = [slot EXCEPT ![s].pc = IF out.raised THEN "raised"
                                             ELSE "returned",
                                   ![s].resp = out.resp]
    /\ UNCHANGED <<now, cache, issued, streak>>
    /\ UNCHANGED tokvars
    /\ UNCHANGED othervars

\* views.py 44-48 after a return; after a raise the exception leaves post()
\* and APIView.dispatch answers with the exception's response
PostFinish(s) ==
    /\ slot[s].pc \in {"returned", "raised"}
    /\ cache' = record_failure(cache, slot[s], now)
    /\ slot' = [slot EXCEPT ![s].pc = "done"]
    /\ streak' = [streak EXCEPT ![slot[s].ip] =
                    IF slot[s].resp.status = HTTP_200 THEN 0
                    ELSE IF slot[s].resp.status = HTTP_401 THEN @ + 1
                    ELSE @]
    /\ UNCHANGED <<now, rows, issued>>
    /\ UNCHANGED tokvars
    /\ UNCHANGED othervars

\* the response leaves the service; the worker is free again
Respond(s) ==
    /\ slot[s].pc = "done"
    /\ slot' = [slot EXCEPT ![s] = IdleSlot,
                            ![Other(s)].overlap = FALSE]
    /\ UNCHANGED <<now, cache, rows, issued, streak>>
    /\ UNCHANGED tokvars
    /\ UNCHANGED othervars

\* time passes
Tick ==
    /\ now + TickStep <= MaxTicks * TickStep
    /\ now' = now + TickStep
    /\ UNCHANGED <<cache, rows, slot, issued, streak>>
    /\ UNCHANGED tokvars
    /\ UNCHANGED othervars

Next ==
    \/ \E s \in Workers, meta \in Metas, body \in Bodies :
          PostRateLimit(s, meta, body, MaxReq)
    \/ \E s \in Workers : PostSuper(s)
    \/ \E s \in Workers : PostFinish(s)
    \/ \E s \in Workers : Respond(s)
    \/ Tick

Spec == Init /\ [][Next]_vars

\* One client behind the proxy, one worker, no clock tick: a burst of
\* requests handled one after the other within the window.
BurstMeta == [xff |-> <<IP_A, PROXY>>, remote |-> PROXY, ua |-> "curl"]

NextBurst ==
    \/ \E body \in Bodies : PostRateLimit("w1", BurstMeta, body, MaxBurst)
    \/ PostSuper("w1")
    \/ PostFinish("w1")
    \/ Respond("w1")

SpecBurst == Init /\ [][NextBurst]_vars

\* The service started against a cache that already holds attempt counters,
\* each written at instant 0 (expiring at LOGIN_TTL): the limiter's decision
\* is a function of the entry it reads, and the entries are drawn here.
SeedEntries ==
    {NoEntry} \cup { [value |-> v, expires |-> LOGIN_TTL] :
                       v \in (THRESHOLD - 1) .. (THRESHOLD + 1) }

InitSeeded ==
    /\ now = 0
    /\ cache \in [Keys -> SeedEntries]
    /\ rows = EmptyBag
    /\ slot = [s \in Workers |-> IdleSlot]
    /\ issued = 0
    /\ streak = [ip \in IPs |-> 0]
    /\ InitTokens
    /\ InitOthers

NextSeeded ==
    \/ \E s \in Workers, meta \in Metas, body \in Bodies :
          PostRateLimit(s, meta, body, MaxSeededReq)
    \/ \E s \in Workers : PostSuper(s)
    \/ \E s \in Workers : PostFinish(s)
    \/ \E s \in Workers : Respond(s)
    \/ Tick

SpecSeeded == InitSeeded /\ [][NextSeeded]_vars

\* One client behind the proxy whose counter was written at instant 0, and
\* a clock that keeps running: the window of a blocked client.
InitWindow ==
    /\ InitSeeded
    /\ cache[cache_key(IP_B)] = NoEntry

NextWindow ==
    \/ \E s \in Workers, body \in Bodies :
          PostRateLimit(s, BurstMeta, body, MaxSeededReq)
    \/ \E s \in Workers : PostSuper(s)
    \/ \E s \in Workers : PostFinish(s)
    \/ \E s \in Workers : Respond(s)
    \/ Tick

SpecWindow == InitWindow /\ [][NextWindow]_vars /\ WF_vars(Tick)

\* --------------------------------------------- validate_token, the steps
logvars == <<cache, rows, slot, issued, streak>>

\* the token that fails a check for no other reason than its expiry
refused_as_expired(word, t) ==
    IF word.text = "<jwt>" /\ word.tok.signed /\ expired(word.tok, t)
    THEN {word.tok} ELSE {}

\* views.py 60-72 and 94-96: the header test and UntypedToken(token)
ValidateHeader(v, auth_header) ==
    /\ vslot[v].pc = "idle"
    /\ validated < MaxValidate
    /\ LET sl == [IdleVSlot EXCEPT !.header = auth_header]
       IN  IF no_bearer(auth_header)
           THEN /\ vslot' = [vslot EXCEPT ![v] =
                      [sl EXCEPT !.pc = "done", !.resp = MissingResponse]]
                /\ expiredSeen' = expiredSeen
           ELSE LET token == split_token(auth_header)
                IN  IF UntypedToken_raises(token, now)
                    THEN /\ vslot' = [vslot EXCEPT ![v] =
                               [sl EXCEPT !.pc = "done", !.token = token,
                                          !.resp = InvalidResponse]]
                         /\ expiredSeen' =
                               expiredSeen \cup refused_as_expired(token, now)
                    ELSE /\ vslot' = [vslot EXCEPT ![v] =
                               [sl EXCEPT !.pc = "untyped", !.token = token]]
                         /\ expiredSeen' = expiredSeen
    /\ validated' = validated + 1
    /\ UNCHANGED <<now, held>>
    /\ UNCHANGED logvars
    /\ UNCHANGED othervars

\* views.py 75-92 and 97-99: jwt.decode, the user lookup, the answer
ValidateDecode(v) ==
    /\ vslot[v].pc = "untyped"
    /\ vslot' = [vslot EXCEPT ![v].pc = "done",
                              ![v].resp = decode_and_lookup(vslot[v].token, now)]
    /\ expiredSeen' = expiredSeen \cup refused_as_expired(vslot[v].token, now)
    /\ UNCHANGED <<now, held, validated>>
    /\ UNCHANGED logvars
    /\ UNCHANGED othervars

\* the validate response leaves the service
ValidateRespond(v) ==
    /\ vslot[v].pc = "done"
    /\ vslot' = [vslot EXCEPT ![v] = IdleVSlot]
    /\ UNCHANGED <<now, held, validated, expiredSeen>>
    /\ UNCHANGED logvars
    /\ UNCHANGED othervars

\* the login response reaches its client, who keeps the tokens it carries
Deliver(s) ==
    /\ slot[s].pc = "done"
    /\ slot' = [slot EXCEPT ![s] = IdleSlot,
                            ![Other(s)].overlap = FALSE]
    /\ held' = IF slot[s].resp.status = HTTP_200
               THEN held \cup {slot[s].resp.access, slot[s].resp.refresh}
               ELSE held
    /\ UNCHANGED <<now, cache, rows, issued, streak>>
    /\ UNCHANGED <<vslot, validated, expiredSeen>>
    /\ UNCHANGED othervars

\* what a client may send as Authorization header
Headers == PlainHeaders \cup { Bearer(Jwt(tok)) : tok \in held }

\* the logins next to the validate requests: a good one and a failed one
TokenBodies ==
    { b \in Bodies : b.username = "alice" /\ b.password # Missing }

\* Logins and validate requests side by side, against a cache that may
\* already hold counters.
NextTokens ==
    \/ \E body \in TokenBodies :
          PostRateLimit("w1", BurstMeta, body, MaxTokReq)
    \/ PostSuper("w1")
    \/ PostFinish("w1")
    \/ Deliver("w1")
    \/ \E v \in Validators, auth_header \in Headers :
          ValidateHeader(v, auth_header)
    \/ \E v \in Validators : ValidateDecode(v)
    \/ \E v \in Validators : ValidateRespond(v)
    \/ Tick

\* the client starts either without an entry or blocked
InitTokenSpec ==
    /\ now = 0
    /\ cache \in { [k \in Keys |-> IF k = cache_key(IP_A) THEN e ELSE NoEntry] :
                     e \in {NoEntry, [value |-> THRESHOLD, expires |-> LOGIN_TTL]} }
    /\ rows = EmptyBag
    /\ slot = [s \in Workers |-> IdleSlot]
    /\ issued = 0
    /\ streak = [ip \in IPs |-> 0]
    /\ InitTokens
    /\ InitOthers

SpecTokens == InitTokenSpec /\ [][NextTokens]_vars

\* ------------------------------------------- PatientViewSet, the steps
nonpatvars == <<cache, rows, slot, issued, streak, vslot, held, validated,
                expiredSeen, hslot, running_experiments, thread, gui,
                results, report>>

\* views.py 31-56: list, up to the cached answer or the database query
ListStart(w, q) ==
    /\ pslot[w].pc = "idle"
    /\ preqs < MaxPatReq
    /\ preqs' = preqs + 1
    /\ LET e == pcache_get(pcache, ListKey(q), now)
           sl == [IdlePSlot EXCEPT !.op = "list", !.q = q, !.floor = completed]
       IN  pslot' = [pslot EXCEPT ![w] =
              IF e.present
              THEN [sl EXCEPT !.pc = "done", !.status = HTTP_200,
                              !.data = e.value, !.hit = TRUE]
              ELSE [sl EXCEPT !.pc = "fetched", !.data = ListData(pdb)]]
    /\ UNCHANGED <<now, pdb, pcache, completed>>
    /\ UNCHANGED nonpatvars

\* views.py 59-72: list, cache.set and the answer
ListStore(w) ==
    /\ pslot[w].pc = "fetched" /\ pslot[w].op = "list"
    /\ pcache' = pcache_set(pcache, ListKey(pslot[w].q), pslot[w].data,
                            LIST_TTL, now)
    /\ pslot' = [pslot EXCEPT ![w].pc = "done", ![w].status = HTTP_200]
    /\ UNCHANGED <<now, pdb, completed>>
    /\ UNCHANGED preqs
    /\ UNCHANGED nonpatvars

\* views.py 74-94: retrieve, up to the cached answer or the database
\* query; get_object answers 404 for a row that is not there
RetrieveStart(w, id) ==
    /\ pslot[w].pc = "idle"
    /\ preqs < MaxPatReq
    /\ preqs' = preqs + 1
    /\ LET e == pcache_get(pcache, DetailKey(id), now)
           sl == [IdlePSlot EXCEPT !.op = "retrieve", !.id = id,
                     !.floor = DetailData(id, completed[id]),
                     !.gone = ~pdb[id].exists /\ pdb[id].ver > 0]
       IN  pslot' = [pslot EXCEPT ![w] =
              IF e.present
              THEN [sl EXCEPT !.pc = "done", !.status = HTTP_200,
                              !.data = e.value, !.hit = TRUE]
              ELSE IF pdb[id].exists
              THEN [sl EXCEPT !.pc = "fetched",
                              !.data = DetailData(id, pdb[id].ver)]
              ELSE [sl EXCEPT !.pc = "done", !.status = 404]]
    /\ UNCHANGED <<now, pdb, pcache, completed>>
    /\ UNCHANGED nonpatvars

\* views.py 95-107: retrieve, cache.set and the answer
RetrieveStore(w) ==
    /\ pslot[w].pc = "fetched" /\ pslot[w].op = "retrieve"
    /\ pcache' = pcache_set(pcache, DetailKey(pslot[w].id), pslot[w].data,
                            DETAIL_TTL, now)
    /\ pslot' = [pslot EXCEPT ![w].pc = "done", ![w].status = HTTP_200]
    /\ UNCHANGED <<now, pdb, completed>>
    /\ UNCHANGED preqs
    /\ UNCHANGED nonpatvars

\* views.py 112: super().create, the row gets the next id
CreateWrite(w) ==
    /\ pslot[w].pc = "idle"
    /\ preqs < MaxPatReq
    /\ preqs' = preqs + 1
    /\ \E id \in PatientIds :
          /\ pdb[id].ver = 0
          /\ \A j \in PatientIds : j < id => pdb[j].ver > 0
          /\ pdb' = [pdb EXCEPT ![id] = [exists |-> TRUE, ver |-> 1]]
          /\ pslot' = [pslot EXCEPT ![w] =
                [IdlePSlot EXCEPT !.pc = "written", !.op = "create",
                                  !.id = id, !.data = DetailData(id, 1)]]
    /\ UNCHANGED <<now, pcache, completed>>
    /\ UNCHANGED nonpatvars

\* views.py 115-118: create, the list invalidation and the answer
CreateInvalidate(w) ==
    /\ pslot[w].pc = "written" /\ pslot[w].op = "create"
    /\ pcache' = invalidate_lists(pcache)
    /\ pslot' = [pslot EXCEPT ![w].pc = "done", ![w].status = 201]
    /\ completed' = [completed EXCEPT ![pslot[w].id] =
                        IF pslot[w].data[pslot[w].id] > @
                        THEN pslot[w].data[pslot[w].id] ELSE @]
    /\ UNCHANGED <<now, pdb>>
    /\ UNCHANGED preqs
    /\ UNCHANGED nonpatvars

\* views.py 125: super().update (PUT or PATCH: partial_update calls
\* update), a new version of the row, or 404
UpdateWrite(w, id) ==
    /\ pslot[w].pc = "idle"
    /\ preqs < MaxPatReq
    /\ preqs' = preqs + 1
    /\ IF pdb[id].exists
       THEN /\ pdb[id].ver < MaxVersion
            /\ pdb' = [pdb EXCEPT ![id].ver = @ + 1]
            /\ pslot' = [pslot EXCEPT ![w] =
                  [IdlePSlot EXCEPT !.pc = "written", !.op = "update",
                       !.id = id, !.data = DetailData(id, pdb[id].ver + 1)]]
       ELSE /\ pdb' = pdb
            /\ pslot' = [pslot EXCEPT ![w] =
                  [IdlePSlot EXCEPT !.pc = "done", !.op = "update",
                                    !.id = id, !.status = 404]]
    /\ UNCHANGED <<now, pcache, completed>>
    /\ UNCHANGED nonpatvars

\* views.py 128-132: update, the two invalidations and the answer
UpdateInvalidate(w) ==
    /\ pslot[w].pc = "written" /\ pslot[w].op = "update"
    /\ pcache' = invalidate_lists(pcache_delete(pcache, DetailKey(pslot[w].id)))
    /\ pslot' = [pslot EXCEPT ![w].pc = "done", ![w].status = HTTP_200]
    /\ completed' = [completed EXCEPT ![pslot[w].id] =
                        IF pslot[w].data[pslot[w].id] > @
                        THEN pslot[w].data[pslot[w].id] ELSE @]
    /\ UNCHANGED <<now, pdb>>
    /\ UNCHANGED preqs
    /\ UNCHANGED nonpatvars

\* destroy is the inherited one (views.py 17): the row is deleted, the
\* cache is not touched
Destroy(w, id) ==
    /\ pslot[w].pc = "idle"
    /\ preqs < MaxPatReq
    /\ preqs' = preqs + 1
    /\ pdb' = [pdb EXCEPT ![id].exists = FALSE]
    /\ pslot' = [pslot EXCEPT ![w] =
          [IdlePSlot EXCEPT !.pc = "done", !.op = "destroy", !.id = id,
                            !.status = IF pdb[id].exists THEN 204 ELSE 404]]
    /\ UNCHANGED <<now, pcache, completed>>
    /\ UNCHANGED nonpatvars

\* the answer leaves the patient service
PRespond(w) ==
    /\ pslot[w].pc = "done"
    /\ pslot' = [pslot EXCEPT ![w] = IdlePSlot]
    /\ UNCHANGED <<now, pdb, pcache, completed>>
    /\ UNCHANGED preqs
    /\ UNCHANGED nonpatvars

NextPatients ==
    \/ \E w \in PWorkers, q \in Queries : ListStart(w, q)
    \/ \E w \in PWorkers : ListStore(w)
    \/ \E w \in PWorkers, id \in PatientIds : RetrieveStart(w, id)
    \/ \E w \in PWorkers : RetrieveStore(w)
    \/ \E w \in PWorkers : CreateWrite(w)
    \/ \E w \in PWorkers : CreateInvalidate(w)
    \/ \E w \in PWorkers, id \in PatientIds : UpdateWrite(w, id)
    \/ \E w \in PWorkers : UpdateInvalidate(w)
    \/ \E w \in PWorkers, id \in PatientIds : Destroy(w, id)
    \/ \E w \in PWorkers : PRespond(w)
    \/ Tick

\* the patient service starts with an empty table or with patient 1 in it
InitPatientSpec ==
    /\ now = 0
    /\ cache = [k \in Keys |-> NoEntry]
    /\ rows = EmptyBag
    /\ slot = [s \in Workers |-> IdleSlot]
    /\ issued = 0
    /\ streak = [ip \in IPs |-> 0]
    /\ InitTokens
    /\ pdb \in { [i \in PatientIds |-> NoPatient],
                 [i \in PatientIds |-> IF i = 1 THEN [exists |-> TRUE, ver |-> 1]
                                                ELSE NoPatient] }
    /\ completed = ListData(pdb)
    /\ pcache = [k \in StoredKeys |-> NoPEntry]
    /\ pslot = [w \in PWorkers |-> IdlePSlot]
    /\ preqs = 0
    /\ hslot = [h \in HWorkers |-> IdleHSlot]
    /\ InitGui
    /\ InitReports

SpecPatients == InitPatientSpec /\ [][NextPatients]_vars

\* ------------------------------ history and diagnosis services, the steps
nonhvars == <<now, cache, rows, slot, issued, streak, vslot, held, validated,
              expiredSeen, pdb, pcache, pslot, completed, preqs,
              running_experiments, thread, gui, results, report>>

Answered(h, endpoint, arg, db_ok, status) ==
    /\ hslot[h].pc = "idle"
    /\ hslot' = [hslot EXCEPT ![h] =
          [pc |-> "done", endpoint |-> endpoint, arg |-> arg,
           db_ok |-> db_ok, status |-> status]]
    /\ UNCHANGED nonhvars

GetPatientHistory(h, arg, db_ok) ==
    Answered(h, "get_patient_history", arg, db_ok,
             get_patient_history(arg, db_ok))

GetPatientTimeline(h, arg, db_ok) ==
    Answered(h, "get_patient_timeline", arg, db_ok,
             get_patient_timeline(arg, db_ok))

AssessPatientRisk(h, arg, db_ok) ==
    Answered(h, "assess_patient_risk", arg, db_ok,
             assess_patient_risk(arg, db_ok))

AnalyzeDiagnosis(h, arg, db_ok) ==
    Answered(h, "analyze_diagnosis", arg, db_ok,
             analyze_diagnosis(arg, db_ok))

\* the answer leaves the service
HRespond(h) ==
    /\ hslot[h].pc = "done"
    /\ hslot' = [hslot EXCEPT ![h] = IdleHSlot]
    /\ UNCHANGED nonhvars

NextLookups ==
    \/ \E h \in HWorkers, arg \in PatientArgs, db_ok \in BOOLEAN :
          GetPatientHistory(h, arg, db_ok)
    \/ \E h \in HWorkers, arg \in PatientArgs, db_ok \in BOOLEAN :
          GetPatientTimeline(h, arg, db_ok)
    \/ \E h \in HWorkers, arg \in PatientArgs, db_ok \in BOOLEAN :
          AssessPatientRisk(h, arg, db_ok)
    \/ \E h \in HWorkers, arg \in DiagnosisArgs, db_ok \in BOOLEAN :
          AnalyzeDiagnosis(h, arg, db_ok)
    \/ \E h \in HWorkers : HRespond(h)

SpecLookups == Init /\ [][NextLookups]_vars

\* ------------------------------------------- the experiment GUI, the steps
nonguivars == <<now, cache, rows, slot, issued, streak, vslot, held, validated,
                expiredSeen, pdb, pcache, pslot, completed, preqs, hslot,
                results, report>>

\* the thread that the next threading.Thread(...).start() creates
NextThread == Cardinality({i \in ThreadIds : thread[i].pc # "unused"}) + 1

\* main.py 829-850 and 895, 897-927 and 972: the handler of a start button,
\* up to the start of the worker thread; ready: tests are selected (and,
\* for the security experiment, the dialog was confirmed)
StartExperiment(type, ready) ==
    /\ gui.pc = "idle"
    /\ gui.calls < MaxCalls
    /\ IF has_entry(running_experiments, type)
       THEN /\ gui' = [gui EXCEPT !.type = type, !.last = "warning",
                                  !.calls = @ + 1]
            /\ thread' = thread
       ELSE IF ~ready
       THEN /\ gui' = [gui EXCEPT !.type = type, !.last = "none",
                                  !.calls = @ + 1]
            /\ thread' = thread
       ELSE /\ NextThread \in ThreadIds
            /\ gui' = [gui EXCEPT !.type = type, !.last = "started",
                                  !.calls = @ + 1]
            /\ thread' = [thread EXCEPT ![NextThread] =
                            [UnusedThread EXCEPT !.pc = "started",
                                                 !.type = type]]
    /\ UNCHANGED running_experiments
    /\ UNCHANGED nonguivars

StartLatencyExperiment(ready) == StartExperiment("latency", ready)

StartSecurityExperiment(ready) == StartExperiment("security", ready)

\* main.py 853-863, 930-940: makedirs and subprocess.Popen in the worker
\* thread; an exception goes to the except clause and then to finally
RunPopen(i, ok) ==
    /\ thread[i].pc = "started"
    /\ thread' = [thread EXCEPT ![i] =
                    IF ok THEN [@ EXCEPT !.pc = "launched",
                                         !.process = "running"]
                    ELSE [@ EXCEPT !.pc = "cleanup"]]
    /\ UNCHANGED <<running_experiments, gui>>
    /\ UNCHANGED nonguivars

\* main.py 865, 942: self.running_experiments[type] = process
RunRegister(i) ==
    /\ thread[i].pc = "launched"
    /\ running_experiments' =
          set_entry(running_experiments, thread[i].type, i)
    /\ thread' = [thread EXCEPT ![i].pc = "reading"]
    /\ UNCHANGED gui
    /\ UNCHANGED nonguivars

\* the subprocess ends by itself
ProcessExit(i) ==
    /\ thread[i].process = "running"
    /\ thread' = [thread EXCEPT ![i].process = "exited"]
    /\ UNCHANGED <<running_experiments, gui>>
    /\ UNCHANGED nonguivars

\* main.py 867-883, 944-960: the output is read to its end, process.wait()
RunWait(i) ==
    /\ thread[i].pc = "reading"
    /\ thread[i].process = "exited"
    /\ thread' = [thread EXCEPT ![i].pc = "cleanup"]
    /\ UNCHANGED <<running_experiments, gui>>
    /\ UNCHANGED nonguivars

\* main.py 890, 967: finally, 'if type in self.running_experiments'
RunFinallyCheck(i) ==
    /\ thread[i].pc = "cleanup"
    /\ thread' = [thread EXCEPT ![i].pc =
                    IF has_entry(running_experiments, thread[i].type)
                    THEN "deleting" ELSE "finished"]
    /\ UNCHANGED <<running_experiments, gui>>
    /\ UNCHANGED nonguivars

\* main.py 891, 968: del self.running_experiments[type]; a missing key
\* raises KeyError in the worker thread
RunFinallyDel(i) ==
    /\ thread[i].pc = "deleting"
    /\ IF has_entry(running_experiments, thread[i].type)
       THEN /\ running_experiments' =
                  del_entry(running_experiments, thread[i].type)
            /\ thread' = [thread EXCEPT ![i].pc = "finished"]
       ELSE /\ running_experiments' = running_experiments
            /\ thread' = [thread EXCEPT ![i].pc = "finished",
                                        ![i].raised = TRUE]
    /\ UNCHANGED gui
    /\ UNCHANGED nonguivars

\* main.py 976, 991-992: stop_experiment, the test of the dictionary
StopCheck(type) ==
    /\ gui.pc = "idle"
    /\ gui.calls < MaxCalls
    /\ gui' = IF has_entry(running_experiments, type)
              THEN [gui EXCEPT !.pc = "terminating", !.type = type,
                               !.last = "", !.calls = @ + 1]
              ELSE [gui EXCEPT !.type = type, !.last = "info",
                               !.calls = @ + 1]
    /\ UNCHANGED <<running_experiments, thread>>
    /\ UNCHANGED nonguivars

\* main.py 977-978: process = self.running_experiments[type], a KeyError
\* when the key is gone; process.terminate() ends the subprocess
StopTerminate ==
    /\ gui.pc = "terminating"
    /\ IF has_entry(running_experiments, gui.type)
       THEN /\ thread' = [thread EXCEPT
                            ![running_experiments[gui.type]].process = "exited"]
            /\ gui' = [gui EXCEPT !.pc = "deleting"]
       ELSE /\ thread' = thread
            /\ gui' = [gui EXCEPT !.pc = "idle", !.last = "KeyError"]
    /\ UNCHANGED running_experiments
    /\ UNCHANGED nonguivars

\* main.py 979-989: del self.running_experiments[type], a KeyError when the
\* key is gone
StopDelete ==
    /\ gui.pc = "deleting"
    /\ IF has_entry(running_experiments, gui.type)
       THEN /\ running_experiments' =
                  del_entry(running_experiments, gui.type)
            /\ gui' = [gui EXCEPT !.pc = "idle", !.last = "stopped"]
       ELSE /\ running_experiments' = running_experiments
            /\ gui' = [gui EXCEPT !.pc = "idle", !.last = "KeyError"]
    /\ UNCHANGED thread
    /\ UNCHANGED nonguivars

NextGui ==
    \/ \E ready \in BOOLEAN : StartLatencyExperiment(ready)
    \/ \E ready \in BOOLEAN : StartSecurityExperiment(ready)
    \/ \E i \in ThreadIds, ok \in BOOLEAN : RunPopen(i, ok)
    \/ \E i \in ThreadIds : RunRegister(i)
    \/ \E i \in ThreadIds : ProcessExit(i)
    \/ \E i \in ThreadIds : RunWait(i)
    \/ \E i \in ThreadIds : RunFinallyCheck(i)
    \/ \E i \in ThreadIds : RunFinallyDel(i)
    \/ \E type \in ExperimentTypes : StopCheck(type)
    \/ StopTerminate
    \/ StopDelete

SpecGui == Init /\ [][NextGui]_vars

\* ------------------------------------------- the load-test reports, the steps
nonrepvars == <<now, cache, rows, slot, issued, streak, vslot, held, validated,
                expiredSeen, pdb, pcache, pslot, completed, preqs, hslot,
                running_experiments, thread, gui>>

\* seguridad.py 450-508: the report of the security run
GenerateSecurityReport ==
    /\ report.script = ""
    /\ report' = generate_security_report(results)
    /\ UNCHANGED results
    /\ UNCHANGED nonrepvars

\* latencia.py 526-599: the report of the latency run
GenerateLatencyReport ==
    /\ report.script = ""
    /\ report' = generate_latency_report(results)
    /\ UNCHANGED results
    /\ UNCHANGED nonrepvars

NextReports ==
    \/ GenerateSecurityReport
    \/ GenerateLatencyReport

\* a run has ended with some of its measurements taken
InitReportSpec ==
    /\ now = 0
    /\ cache = [k \in Keys |-> NoEntry]
    /\ rows = EmptyBag
    /\ slot = [s \in Workers |-> IdleSlot]
    /\ issued = 0
    /\ streak = [ip \in IPs |-> 0]
    /\ InitTokens
    /\ InitPatients
    /\ hslot = [h \in HWorkers |-> IdleHSlot]
    /\ InitGui
    /\ results \in ResultSets
    /\ report = NoReport

SpecReports == InitReportSpec /\ [][NextReports]_vars

\* ------------------------------------------------------ claim vocabulary
\* the attempt count of a client IP that a cache.get at instant t finds
CountAt(ip, t) == cache_get(cache, cache_key(ip), 0, t)

ClientOf(sl) == IF sl.meta.xff # <<>> THEN sl.meta.xff[1] ELSE sl.meta.remote

CorrectCredentials(body) ==
    /\ body.username \in DOMAIN User
    /\ body.password = User[body.username].password

\* credentials were sent and do not match an account
FailsVerification(body) ==
    /\ body.username # Missing
    /\ body.password # Missing
    /\ ~CorrectCredentials(body)

IsRejected(sl) ==
    /\ sl.pc = "done"
    /\ sl.resp.status = HTTP_429

HasBothTokens(sl) ==
    /\ sl.resp.access.token_type = "access"
    /\ sl.resp.access.user_id = User[sl.body.username].id
    /\ sl.resp.access.signed
    /\ sl.resp.refresh.token_type = "refresh"
    /\ sl.resp.refresh.user_id = User[sl.body.username].id
    /\ sl.resp.refresh.signed

\* worker s takes the step of line 42 (super().post())
SuperStep(s) == slot[s].pc = "checked" /\ slot'[s].pc # "checked"

\* worker s takes a step of its request other than line 42
OtherStep(s) == slot'[s] # slot[s] /\ ~SuperStep(s)

Min2(a, b) == IF a <= b THEN a ELSE b

\* ---------------------------------------------------------------- claims

\* C1: after 5 failed logins in a row from one IP within the 300 s window,
\* the next login from that IP is rejected with 429 whatever its credentials.
C1_SixthAttemptRejected ==
    [][\A s \in Workers :
          ( /\ slot[s].pc = "idle"
            /\ slot'[s].pc # "idle"
            /\ streak[ClientOf(slot'[s])] = THRESHOLD
            /\ now < LOGIN_TTL )
          => IsRejected(slot'[s])]_vars

\* C2: two failed logins from the same IP that are in the handler at the
\* same time leave the counter at its initial value + 2.
C2_NoLostIncrement ==
    \A s \in Workers :
       LET t == Other(s)
       IN  ( /\ slot[s].pc = "done" /\ slot[t].pc = "done"
             /\ slot[s].resp.status = HTTP_401
             /\ slot[t].resp.status = HTTP_401
             /\ ClientOf(slot[s]) = ClientOf(slot[t])
             /\ slot[s].overlap \/ slot[t].overlap
             /\ slot[s].t0 = now /\ slot[t].t0 = now )
           => CountAt(ClientOf(slot[s]), now)
                = Min2(slot[s].attempts, slot[t].attempts) + 2

\* C3: while the counter of an IP is >= 5 and has not expired, every login
\* request from that IP is a rejected one, whatever its credentials.
C3_BlockedWhileCounterLive ==
    \A s \in Workers :
       ( /\ slot[s].pc # "idle"
         /\ CountAt(ClientOf(slot[s]), now) >= THRESHOLD )
       => IsRejected(slot[s])

C3_Witness ==
    \E s \in Workers :
       /\ IsRejected(slot[s])
       /\ CorrectCredentials(slot[s].body)
       /\ CountAt(ClientOf(slot[s]), now) >= THRESHOLD
       /\ now > slot[s].t0

\* C4: a login that passes the limiter and fails credential verification
\* raises the counter of its client IP by exactly one (to 1 when absent).
C4_FailureIncrementsCounter ==
    [][\A s \in Workers :
          ( /\ slot[s].pc \in {"returned", "raised"}
            /\ slot'[s].pc = "done"
            /\ FailsVerification(slot[s].body) )
          => CountAt(ClientOf(slot[s]), now)' =
               CountAt(ClientOf(slot[s]), now) + 1]_vars

\* C5: a request whose limiter check finds a count >= 5 is answered 429 with
\* retry_after = 300, and one whose check finds a count < 5 is never
\* answered 429 (an absent entry reads as 0).
C5_RateLimitedIffThreshold ==
    \A s \in Workers :
       slot[s].pc # "idle" =>
          LET n == CountAt(ClientOf(slot[s]), slot[s].t0)
          IN  /\ n >= THRESHOLD =>
                    /\ IsRejected(slot[s])
                    /\ slot[s].resp.retry_after = 300
                    /\ slot[s].resp.access = NoToken
                    /\ slot[s].resp.refresh = NoToken
              /\ n < THRESHOLD => slot[s].resp.status # HTTP_429

C5_Witness ==
    \E s \in Workers :
       LET t == Other(s)
       IN  /\ IsRejected(slot[s])
           /\ slot[s].resp.retry_after = RETRY_AFTER
           /\ CountAt(ClientOf(slot[s]), slot[s].t0) = THRESHOLD
           /\ slot[t].pc = "done"
           /\ slot[t].resp.status = HTTP_401
           /\ CountAt(ClientOf(slot[t]), slot[t].t0) = THRESHOLD - 1
           /\ cache[cache_key(ClientOf(slot[t]))] # NoEntry

\* C6: a request rejected by the limiter has no side effect: from its
\* arrival to its response no LoginAttempt row is added, no counter or
\* expiry changes, and it never reaches the credential check.
C6_RejectionHasNoSideEffect ==
    [][\A s \in Workers :
          /\ ( slot[s].pc = "idle" /\ slot'[s].pc = "done" )
               => ( rows' = rows /\ cache' = cache
                    /\ slot'[s].resp = RateLimitResponse )
          /\ ( slot'[s].resp.status = HTTP_429 /\ slot[s].resp.status # HTTP_429 )
               => slot[s].pc = "idle"
          /\ IsRejected(slot[s])
               => ( slot'[s].pc \in {"done", "idle"}
                    /\ (slot'[s] # slot[s] => rows' = rows /\ cache' = cache) )]_vars

C6_Witness ==
    \E s \in Workers :
       /\ IsRejected(slot[s])
       /\ FailsVerification(slot[s].body)
       /\ BagCardinality(rows) > 0

C8_FailedLoginLogged ==
    /\ [](\A s \in Workers :
            ( /\ FailsVerification(slot[s].body)
              /\ slot[s].pc \in {"raised", "returned", "done"}
              /\ ~IsRejected(slot[s]) )
            => /\ slot[s].resp.status = HTTP_401
               /\ slot[s].resp.access = NoToken
               /\ slot[s].resp.refresh = NoToken)
    /\ [][\A s \in Workers :
            /\ ( SuperStep(s) /\ FailsVerification(slot[s].body) )
                 => rows' = rows (+) SetToBag({
                       LoginAttemptRow(slot[s].body.username, ClientOf(slot[s]),
                                       slot[s].meta.ua, FALSE) })
            /\ ( OtherStep(s)
                 /\ ( FailsVerification(slot[s].body)
                      \/ FailsVerification(slot'[s].body) ) )
                 => rows' = rows]_vars

C8_Witness ==
    \E s \in Workers :
       /\ slot[s].pc = "done"
       /\ slot[s].body.username = "mallory"
       /\ slot[s].resp.status = HTTP_401
       /\ BagCardinality(rows) = 1
       /\ CopiesIn(LoginAttemptRow("mallory", ClientOf(slot[s]),
                                   slot[s].meta.ua, FALSE), rows) = 1

\* C9: every login call that the limiter does not short-circuit adds
\* exactly one LoginAttempt row, whatever the request body (a missing
\* username or password included); rows are never changed or removed.
C9_ExactlyOneRowPerCall ==
    [][/\ \A s \in Workers :
             SuperStep(s) => BagCardinality(rows') = BagCardinality(rows) + 1
       /\ rows \sqsubseteq rows']_vars

Answers(v) == vslot[v].pc # "done" /\ vslot'[v].pc = "done"

ExistingIds == { User[n].id : n \in DOMAIN User }

\* the header "Bearer <token>" of a token the service signed
CarriesToken(h) ==
    Len(h) = 2 /\ h[1].text = "Bearer" /\ h[2].text = "<jwt>" /\ h[2].tok.signed

\* the validate response that says yes
SaysValid(r) == r.status = HTTP_200 /\ r.valid

\* a validate of the token, were it made entirely at instant t, says yes
WouldValidate(tok, t) ==
    /\ ~UntypedToken_raises(Jwt(tok), t)
    /\ SaysValid(decode_and_lookup(Jwt(tok), t))

\* C11: a validate of a signed token of an existing user answers valid
\* (200) when it is answered before the token's expiry T, and answers not
\* valid when it is answered at or after T.
C11_ValidUntilExpiry ==
    [][\A v \in Validators :
         LET h == vslot'[v].header
         IN  ( /\ Answers(v)
               /\ CarriesToken(h)
               /\ h[2].tok.user_id \in ExistingIds )
             => /\ now < h[2].tok.exp => SaysValid(vslot'[v].resp)
                /\ now >= h[2].tok.exp
                     => /\ vslot'[v].resp.status # HTTP_200
                        /\ ~vslot'[v].resp.valid]_vars

\* a token that a login of this run issued is answered valid while, next to
\* it, a token of the same user is refused at the very instant of its expiry
C11_Witness ==
    \E v, w \in Validators :
       /\ vslot[v].pc = "done" /\ vslot[w].pc = "done"
       /\ CarriesToken(vslot[v].header) /\ CarriesToken(vslot[w].header)
       /\ vslot[v].header[2].tok \notin EarlierTokens
       /\ vslot[v].header[2].tok.token_type = "access"
       /\ SaysValid(vslot[v].resp)
       /\ vslot[w].header[2].tok.user_id \in ExistingIds
       /\ vslot[w].header[2].tok.exp = now
       /\ vslot[w].resp.status = HTTP_401

StartsWithBearer(h) == Len(h) >= 2 /\ h[1].text = "Bearer"

\* the header is "Bearer " followed by a string that is a token
WellFormedBearer(h) == Len(h) = 2 /\ h[1].text = "Bearer" /\ h[2].text = "<jwt>"

C14_UnknownUserNotFound ==
    [][\A v \in Validators :
         LET h == vslot'[v].header
         IN  ( /\ Answers(v)
               /\ CarriesToken(h)
               /\ h[2].tok.user_id \notin ExistingIds
               /\ now < h[2].tok.exp )
             => /\ vslot'[v].resp.status = HTTP_401
                /\ ~vslot'[v].resp.valid
                /\ vslot'[v].resp.error = "User not found"
                /\ vslot'[v].resp.x_user = ""]_vars

C14_Witness ==
    \E v \in Validators :
       /\ vslot[v].pc = "done"
       /\ CarriesToken(vslot[v].header)
       /\ vslot[v].header[2].tok.user_id = DELETED_ID
       /\ now < vslot[v].header[2].tok.exp
       /\ vslot[v].resp.error = "User not found"

\* the 200 answer for the user the presented token names
IsValidAnswer(sl) ==
    /\ sl.resp.status = HTTP_200
    /\ sl.resp.valid
    /\ CarriesToken(sl.header)
    /\ sl.resp.user_id = sl.header[2].tok.user_id
    /\ \E n \in DOMAIN User :
          /\ User[n].id = sl.resp.user_id
          /\ sl.resp.username = User[n].username
          /\ sl.resp.x_user = User[n].username

IsRefusal(sl) ==
    sl.resp.status = HTTP_401 /\ ~sl.resp.valid /\ sl.resp.x_user = ""

UnknownUsername(body) ==
    /\ FailsVerification(body)
    /\ body.username \notin DOMAIN User

\* a login for an existing username with a wrong password
WrongPassword(body) ==
    /\ FailsVerification(body)
    /\ body.username \in DOMAIN User

\* the same request with the other kind of wrong credentials
Twin(body) ==
    IF body.username \in DOMAIN User
    THEN [body EXCEPT !.username = "mallory"]
    ELSE [body EXCEPT !.username = "alice"]

\* where the handler would stand had it been given the twin request
TwinSlot(sl, t) ==
    LET out == is_valid(sl.meta, Twin(sl.body), t)
    IN  [sl EXCEPT !.body = Twin(sl.body), !.resp = out.resp,
                   !.pc = IF out.raised THEN "raised" ELSE "returned"]

FinishStep(s) == slot[s].pc \in {"returned", "raised"} /\ slot'[s].pc = "done"

\* C16: a login for a nonexistent username and a login for an existing
\* username with a wrong password get the same response (401, same error),
\* and finishing either changes the attempt counters exactly as finishing
\* the other would.
C16_UnknownUserIndistinguishable ==
    [][/\ \A s, t \in Workers :
             ( /\ slot'[s].pc = "done" /\ slot'[t].pc = "done"
               /\ ~IsRejected(slot'[s]) /\ ~IsRejected(slot'[t])
               /\ UnknownUsername(slot'[s].body)
               /\ WrongPassword(slot'[t].body) )
             => /\ slot'[s].resp = slot'[t].resp
                /\ slot'[s].resp.status = HTTP_401
       /\ \A s \in Workers :
             ( /\ SuperStep(s)
               /\ FailsVerification(slot[s].body)
               /\ Twin(slot[s].body) \in Bodies )
             => slot'[s].resp = TwinSlot(slot[s], now).resp
       /\ \A s \in Workers :
             ( /\ FinishStep(s)
               /\ FailsVerification(slot[s].body)
               /\ Twin(slot[s].body) \in Bodies )
             => cache' = record_failure(cache, TwinSlot(slot[s], now), now)]_vars

\* both kinds of failed login answered side by side, for the same client
C16_Witness ==
    \E s, t \in Workers :
       /\ slot[s].pc = "done" /\ slot[t].pc = "done"
       /\ UnknownUsername(slot[s].body) /\ WrongPassword(slot[t].body)
       /\ slot[s].ip = slot[t].ip
       /\ slot[s].resp.status = HTTP_401 /\ slot[t].resp.status = HTTP_401

\* the step in which worker s takes a request
TakeStep(s) == slot[s].pc = "idle" /\ slot'[s].pc # "idle"

\* C17: finishing a login changes no counter but the one of the request's
\* own client IP, and a login with correct credentials from a client whose
\* own live count is below 5 is never answered 429, whatever the count of
\* another client.
C17_CountersPerClient ==
    [][\A s \in Workers :
         /\ FinishStep(s)
              => \A ip \in IPs \ {ClientOf(slot[s])} :
                    cache'[cache_key(ip)] = cache[cache_key(ip)]
         /\ ( /\ TakeStep(s)
              /\ CorrectCredentials(slot'[s].body)
              /\ CountAt(ClientOf(slot'[s]), now) < THRESHOLD )
              => slot'[s].resp.status # HTTP_429]_vars

\* one client is blocked and, meanwhile, another one logs in
C17_Witness ==
    \E s, t \in Workers :
       /\ IsRejected(slot[s])
       /\ CountAt(ClientOf(slot[s]), now) >= THRESHOLD
       /\ slot[t].pc = "done"
       /\ ClientOf(slot[t]) # ClientOf(slot[s])
       /\ CorrectCredentials(slot[t].body)
       /\ slot[t].resp.status = HTTP_200

\* C18: the client IP of a login is the first entry of X-Forwarded-For when
\* that header is present and non-empty, the direct peer address otherwise;
\* that value is the key under which the attempt counter is read and the
\* ip_address of the LoginAttempt row of the request.
C18_OneClientIp ==
    [][\A s \in Workers :
         /\ TakeStep(s)
              => /\ slot'[s].ip = ClientOf(slot'[s])
                 /\ slot'[s].attempts = CountAt(ClientOf(slot'[s]), now)
         /\ SuperStep(s)
              => \A r \in BagToSet(rows' (-) rows) :
                    r.ip_address = ClientOf(slot[s])]_vars

\* a forwarded request and a direct one, each with its row
C18_Witness ==
    \E s, t \in Workers :
       /\ slot[s].pc = "done" /\ slot[t].pc = "done"
       /\ slot[s].meta.xff # << >> /\ slot[t].meta.xff = << >>
       /\ slot[s].ip = slot[s].meta.xff[1] /\ slot[t].ip = slot[t].meta.remote
       /\ \E r \in BagToSet(rows) : r.ip_address = slot[s].ip
       /\ \E r \in BagToSet(rows) : r.ip_address = slot[t].ip

\* the number of LoginAttempt rows of a client IP with the given outcome
CountRows(ip, ok) ==
    LET S == { r \in BagToSet(rows) : r.ip_address = ip /\ r.success = ok }
    IN  IF S = {} THEN 0 ELSE BagCardinality([r \in S |-> CopiesIn(r, rows)])

\* C19: no step lowers or removes an attempt-counter entry; finishing a
\* successful login leaves the cache as it is; and a client IP with 5
\* failed logins inside the window is rejected at its next login even when
\* a successful login occurred between them.
C19_OnlyExpiryRemoves ==
    [][/\ \A k \in Keys :
             /\ cache'[k].value >= cache[k].value
             /\ cache'[k].expires >= cache[k].expires
       /\ \A s \in Workers :
             (FinishStep(s) /\ slot[s].resp.status = HTTP_200)
             => cache' = cache
       /\ \A s \in Workers :
             ( /\ TakeStep(s)
               /\ CountRows(ClientOf(slot'[s]), FALSE) >= THRESHOLD
               /\ CountRows(ClientOf(slot'[s]), TRUE) >= 1
               /\ now < LOGIN_TTL )
             => IsRejected(slot'[s])]_vars

C21_RefreshTokenNotAccepted ==
    \A v \in Validators :
       ( /\ vslot[v].pc = "done"
         /\ CarriesToken(vslot[v].header)
         /\ vslot[v].header[2].tok.token_type = "refresh"
         /\ now < vslot[v].header[2].tok.exp )
       => ~vslot[v].resp.valid

\* the step in which a create or an update of worker w completes
WriteCompletes(w) == pslot[w].pc = "written" /\ pslot'[w].pc = "done"

\* the cached patient lists
ListEntries(c) == { k \in DOMAIN c : k.name = "patients_list_" /\ c[k].present }

\* C22: when a create or an update completes, no patient-list entry is left
\* in the cache, and every list answer shows each patient that still exists
\* at least as new as the last write of it that completed before the list
\* call came in.
C22_ListCacheInvalidated ==
    [][\A w \in PWorkers :
         /\ WriteCompletes(w) => ListEntries(pcache') = {}
         /\ ( /\ pslot'[w].pc = "done"
              /\ pslot'[w].op = "list" )
              => \A i \in PatientIds :
                    pdb'[i].exists => pslot'[w].data[i] >= pslot'[w].floor[i]]_vars

\* C23: when an update of patient p completes, the entry 'patient_<p>' is
\* not in the cache, and no retrieve of p answers with data older than the
\* last update of p that completed before the retrieve came in.
C23_DetailNeverStale ==
    [][\A w \in PWorkers :
         /\ (WriteCompletes(w) /\ pslot[w].op = "update")
              => ~pcache'[make_key(DetailKey(pslot[w].id))].present
         /\ ( /\ pslot'[w].pc = "done"
              /\ pslot'[w].op = "retrieve"
              /\ pslot'[w].status = HTTP_200 )
              => pslot'[w].data[pslot'[w].id] >= pslot'[w].floor[pslot'[w].id]]_vars

\* C29: a retrieve that comes in after the patient was deleted through
\* destroy does not answer with the patient's data.
C29_NoDeletedPatientServed ==
    \A w \in PWorkers :
       ( /\ pslot[w].pc = "done"
         /\ pslot[w].op = "retrieve"
         /\ pslot[w].gone )
       => /\ pslot[w].status # HTTP_200
          /\ pslot[w].data = NoData

\* the lookup of the request matched nothing, and nothing else went wrong
MatchesNothing(sl) ==
    /\ sl.db_ok
    /\ ~sl.arg.matches
    /\ sl.endpoint # "analyze_diagnosis" => (sl.arg.long \/ sl.arg.numeric)

\* C24: get_patient_history, get_patient_timeline, assess_patient_risk and
\* analyze_diagnosis answer a lookup that matches nothing with 404, and
\* answer 500 only when something unexpected failed.
C24_NotFoundIs404 ==
    \A h \in HWorkers :
       hslot[h].pc = "done"
       => /\ MatchesNothing(hslot[h]) => hslot[h].status = 404
          /\ hslot[h].status = 500 => ~hslot[h].db_ok

\* at most one subprocess of each experiment type is running
OneProcessPerType ==
    \A t \in ExperimentTypes :
       Cardinality({i \in ThreadIds : /\ thread[i].type = t
                                      /\ thread[i].process = "running"}) <= 1

\* an experiment of type t was started and has not finished
Unfinished(t) ==
    \E i \in ThreadIds :
       /\ thread[i].type = t
       /\ thread[i].pc \in {"started", "launched", "reading"}
       /\ thread[i].process # "exited"

\* the step is a call of the start handler of type t
StartCall(t) ==
    /\ gui.pc = "idle"
    /\ gui'.pc = "idle"
    /\ gui'.calls = gui.calls + 1
    /\ gui'.type = t
    /\ gui'.last \in {"warning", "none", "started"}

\* C25: at most one subprocess of an experiment type runs at a time, and a
\* start call made while an experiment of that type is started and not
\* finished shows the warning and starts no thread.
C25_OneSubprocessPerType ==
    [][/\ OneProcessPerType'
       /\ \A t \in ExperimentTypes :
             (StartCall(t) /\ Unfinished(t))
             => /\ gui'.last = "warning"
                /\ thread' = thread]_vars

\* the step in which worker thread i deletes in its finally block
FinallyDel(i) == thread[i].pc = "deleting" /\ thread'[i].pc = "finished"

\* no handler and no thread of type t is half way
Settled(t) ==
    /\ gui.pc = "idle"
    /\ \A i \in ThreadIds :
          thread[i].type = t
          => \/ thread[i].pc = "finished"
             \/ thread[i].pc = "reading" /\ thread[i].process = "running"

\* C30: once the handlers and threads of a type have settled, the
\* dictionary holds an entry for the type exactly when a subprocess of the
\* type is running; the finally block of a worker thread never removes the
\* entry of another thread's process; stop_experiment never raises KeyError.
C30_EntryWhileRunning ==
    [][/\ \A t \in ExperimentTypes :
             Settled(t)'
             => ( has_entry(running_experiments', t)
                  <=> \E i \in ThreadIds : /\ thread'[i].type = t
                                           /\ thread'[i].process = "running" )
       /\ \A i \in ThreadIds :
             ( /\ FinallyDel(i)
               /\ running_experiments[thread[i].type] # i )
             => running_experiments' = running_experiments
       /\ gui'.last # "KeyError"]_vars

\* C26: a report's overall status is PASS exactly when the number of
\* compliant ASRs equals the number of evaluated ASRs, so also when none
\* was evaluated (the percentage is then 0), and FAIL otherwise; the
\* percentage is 100 * compliant / max(1, evaluated).
C26_PassIffAllCompliant ==
    report.script # ""
    => LET a == report.asr_compliance
           evaluated == Cardinality(DOMAIN a)
           compliant == Cardinality({n \in DOMAIN a : a[n]})
           s == report.summary
       IN  /\ s.overall_status = IF compliant = evaluated THEN "PASS"
                                 ELSE "FAIL"
           /\ s.compliance_percentage.num * Max2(1, evaluated)
                = 100 * compliant * s.compliance_percentage.den
           /\ evaluated = 0 => /\ s.overall_status = "PASS"
                               /\ s.compliance_percentage.num = 0

C26_Witness ==
    /\ report.script = "latencia"
    /\ results.e2e_p95 = 0
    /\ DOMAIN report.asr_compliance = {}
    /\ report.summary.overall_status = "PASS"
    /\ report.summary.compliance_percentage.num = 0

\* the limiter check of a request of this client would reject it
Blocked(ip) == RateLimited(CountAt(ip, now))

\* C28: a blocked client IP is eventually allowed again, 300 s after the
\* write of its counter, however many login requests it sends while it is
\* blocked: from then on its requests pass the limiter check.
C28_BlockedEventuallyAllowed ==
    /\ \A ip \in IPs :
          Blocked(ip)
          ~> ( /\ now >= cache[cache_key(ip)].expires
               /\ ~Blocked(ip) )
    /\ [](\A s \in Workers :
            LET e == cache[cache_key(ClientOf(slot[s]))]
            IN  ( /\ slot[s].pc # "idle"
                  /\ e.value >= THRESHOLD
                  /\ slot[s].t0 >= e.expires )
                => ~IsRejected(slot[s]))

C28_Witness ==
    \E s \in Workers :
       LET e == cache[cache_key(ClientOf(slot[s]))]
       IN  /\ slot[s].pc = "checked"
           /\ e.value >= THRESHOLD
           /\ e.expires = LOGIN_TTL
           /\ slot[s].t0 >= e.expires
           /\ IsRejected(slot[Other(s)])
           /\ slot[Other(s)].ip = slot[s].ip
           /\ slot[Other(s)].t0 < e.expires

====
